---- MODULE Spec2Model ----
(***************************************************************************)
(* Model of the power-outage scraper: the text parser (parser.py), the     *)
(* persisted fingerprint state (state.py) and the orchestrator run_once    *)
(* (main.py).                                                              *)
(*                                                                         *)
(* Text is modelled at token level.  A string that is compared or          *)
(* converted character by character (queue identifiers and labels) is a    *)
(* sequence of one-character strings.  A line of a schedule block is a     *)
(* sequence of tokens, one token per substring that one of the regular     *)
(* expressions of parser.py can match; tokens are separated by text that   *)
(* matches none of them.                                                   *)
(***************************************************************************)
EXTENDS Integers, Sequences, FiniteSets, TLC

VARIABLES
    persisted,   \* content of the state file: day key -> fingerprint
    calendar,    \* CalSpec: the queue's events on the calendar, day -> ranges
    today,       \* datetime.now(cfg.timezone).date(), as a day ordinal
    queue,       \* cfg.outage_queue
    last,        \* the run of run_once in progress: its inputs and what it did
    selLines,    \* pick_queue_ranges: snapshot.queue_lines
    selQueue,    \* pick_queue_ranges: requested identifier
    selResult,   \* pick_queue_ranges: outcome
    resText,     \* _pick_update_datetime: block text
    resFallback, \* _pick_update_datetime: fallback_date
    resResult    \* _pick_update_datetime: outcome

vars == <<persisted, calendar, today, queue, last,
          selLines, selQueue, selResult, resText, resFallback, resResult>>

runVars == <<persisted, calendar, today, queue, last>>
selVars == <<selLines, selQueue, selResult>>
resVars == <<resText, resFallback, resResult>>

(***************************************************************************)
(* Bounds of the model.                                                    *)
(***************************************************************************)
MaxLines == 3      \* queue lines of a snapshot handed to pick_queue_ranges
MaxTokens == 2     \* tokens of a block text handed to _pick_update_datetime
MaxBlocks == 2     \* schedule blocks on a rendered page
LastDay == 2       \* the last value of "today" (the first is FirstDay)

(***************************************************************************)
(* Sequence helpers.                                                       *)
(***************************************************************************)
SeqsUpTo(S, n) == UNION {[1..k -> S] : k \in 0..n}

RECURSIVE Concat(_)
Concat(ss) == IF ss = <<>> THEN <<>> ELSE Head(ss) \o Concat(Tail(ss))

RemoveAt(s, i) == [j \in 1..(Len(s) - 1) |-> IF j < i THEN s[j] ELSE s[j + 1]]

(***************************************************************************)
(* Characters.                                                             *)
(***************************************************************************)
Digits == {"0", "1", "2", "3", "4", "5", "6", "7", "8", "9"}
Whitespace == {" "}
QueuePunct == {".", ",", ";", ":", " "}

DigitValue(c) ==
    CASE c = "0" -> 0 [] c = "1" -> 1 [] c = "2" -> 2 [] c = "3" -> 3
      [] c = "4" -> 4 [] c = "5" -> 5 [] c = "6" -> 6 [] c = "7" -> 7
      [] c = "8" -> 8 [] c = "9" -> 9

\* str.strip(chars): drop the leading and the trailing characters in chars
RECURSIVE LStrip(_, _)
LStrip(s, chars) ==
    IF s # <<>> /\ Head(s) \in chars THEN LStrip(Tail(s), chars) ELSE s

RECURSIVE RStrip(_, _)
RStrip(s, chars) ==
    IF s # <<>> /\ s[Len(s)] \in chars
    THEN RStrip(SubSeq(s, 1, Len(s) - 1), chars) ELSE s

Strip(s, chars) == RStrip(LStrip(s, chars), chars)

\* str.isdigit() on the modelled alphabet
IsDigit(s) == s # <<>> /\ \A i \in 1..Len(s) : s[i] \in Digits

\* int(s) for a string of decimal digits
RECURSIVE ParseInt(_)
ParseInt(s) ==
    IF s = <<>> THEN 0
    ELSE 10 * ParseInt(SubSeq(s, 1, Len(s) - 1)) + DigitValue(s[Len(s)])

_normalize_queue(value) == Strip(Strip(value, Whitespace), QueuePunct)

(***************************************************************************)
(* Times of day.  A time token is <<hour, minute>> as written: the         *)
(* patterns accept \d{1,2}:\d{2}, so hour and minute range over 0..99.     *)
(***************************************************************************)
Raised == -1            \* stands for an exception where a number is expected
None == <<"None">>      \* stands for None where a string is expected
MinutesPerDay == 1440

ValidTime(v) == v[1] <= 23 /\ v[2] <= 59

\* minutes after midnight, or Raised when strptime rejects the token
_parse_time(v) ==
    IF v = <<24, 0>> THEN 0
    ELSE IF ValidTime(v) THEN 60 * v[1] + v[2]
    ELSE Raised

(***************************************************************************)
(* Tokens of a line.  k is the kind:                                       *)
(*   "word"   text no pattern matches                                      *)
(*   "label"  a queue label word followed by the numeric token q           *)
(*   "range"  a time range a - b                                           *)
(*   "time"   a bare HH:MM a                                               *)
(*   "dt"     a date d followed by a time a                                *)
(*   "td"     a time a followed by a date d                                *)
(*   "header" the schedule header phrase with the date d                   *)
(* A date is a day ordinal, or BadDate when the digits are not a date.     *)
(***************************************************************************)
BadDate == 0
NoTime == <<0, 0>>

Word == [k |-> "word", q |-> <<>>, a |-> NoTime, b |-> NoTime, d |-> BadDate]
Label(q) == [Word EXCEPT !.k = "label", !.q = q]
Range(a, b) == [Word EXCEPT !.k = "range", !.a = a, !.b = b]
Time(a) == [Word EXCEPT !.k = "time", !.a = a]
DateTime(d, a) == [Word EXCEPT !.k = "dt", !.d = d, !.a = a]
TimeDate(a, d) == [Word EXCEPT !.k = "td", !.d = d, !.a = a]
Header(d) == [Word EXCEPT !.k = "header", !.d = d]

SelectTokens(line, kinds) == SelectSeq(line, LAMBDA t : t.k \in kinds)

(***************************************************************************)
(* Dates and instants.  A date is its day ordinal; a naive datetime is the *)
(* number of minutes since the start of day 0.                             *)
(***************************************************************************)
FirstDay == 1

\* date.isoformat(), the key of a day in the state file
isoformat(d) ==
    CASE d = 1 -> "2024-03-01" [] d = 2 -> "2024-03-02"
      [] d = 3 -> "2024-03-03" [] d = 4 -> "2024-03-04"
      [] d = 5 -> "2024-03-05" [] d = 6 -> "2024-03-06"
      [] d = 7 -> "2024-03-07" [] d = 8 -> "2024-03-08"
      [] OTHER -> "2024-03-09"

\* datetime.combine(day, time)
combine(d, minutes) == d * MinutesPerDay + minutes

(***************************************************************************)
(* parser.py: Timestamp Resolver                                           *)
(***************************************************************************)
\* date_parser.parse(raw, dayfirst=True) on a date+time token: an instant,
\* or Raised when the digits are not a date or not a time of day
date_parser_parse(t) ==
    IF t.d # BadDate /\ ValidTime(t.a)
    THEN combine(t.d, 60 * t.a[1] + t.a[2])
    ELSE Raised

\* the matches of one datetime pattern, in text order, parsed
PatternResults(text, kind) ==
    LET ms == SelectTokens(text, {kind})
    IN  [i \in 1..Len(ms) |-> date_parser_parse(ms[i])]

\* the instant returned by the loop over one pattern: the first match that
\* parses; Raised here means that no match of the pattern parsed
FirstParsed(results) ==
    LET ok == SelectSeq(results, LAMBDA r : r # Raised)
    IN  IF ok = <<>> THEN Raised ELSE Head(ok)

\* re.search(r"\b\d{1,2}:\d{2}\b", text): every token holding an HH:MM,
\* the first HH:MM of a token being its field a
TimeMatches(text) == SelectTokens(text, {"time", "range", "dt", "td"})

\* the two fallbacks after the datetime patterns: the first bare HH:MM on
\* the fallback date, else midnight of the fallback date
TimeFallback(tm, fallback_date) ==
    IF tm = <<>> THEN combine(fallback_date, 0)
    ELSE IF _parse_time(Head(tm).a) = Raised THEN Raised
    ELSE combine(fallback_date, _parse_time(Head(tm).a))

FirstOf(p1, p2, text, fallback_date) ==
    IF p1 # Raised THEN p1
    ELSE IF p2 # Raised THEN p2
    ELSE TimeFallback(TimeMatches(text), fallback_date)

\* an instant, or Raised when the ValueError of _parse_time escapes
_pick_update_datetime(text, fallback_date) ==
    FirstOf(FirstParsed(PatternResults(text, "dt")),
            FirstParsed(PatternResults(text, "td")), text, fallback_date)

(***************************************************************************)
(* parser.py: Time/Queue Token Parser                                      *)
(***************************************************************************)
QueueLine(raw, q, ranges) == [raw_line |-> raw, queue |-> q, ranges |-> ranges]

\* TIME_RANGE_RE.findall(line), each end parsed by _parse_time
LineRanges(line) ==
    LET ms == SelectTokens(line, {"range"})
    IN  [i \in 1..Len(ms) |-> <<_parse_time(ms[i].a), _parse_time(ms[i].b)>>]

RangesRaise(ranges) ==
    \E i \in 1..Len(ranges) : ranges[i][1] = Raised \/ ranges[i][2] = Raised

\* QUEUE_LABEL_RE.search(line), normalized
LineQueue(line) ==
    LET ms == SelectTokens(line, {"label"})
    IN  IF ms = <<>> THEN None ELSE _normalize_queue(Head(ms).q)

\* out.append(QueueLine(...)) unless the line has no range
Appended(line, ranges) ==
    IF ranges = <<>> THEN <<>>
    ELSE <<QueueLine(line, LineQueue(line), ranges)>>

RECURSIVE ExtractLoop(_)
ExtractLoop(lines) ==
    IF lines = <<>> THEN <<>>
    ELSE Appended(Head(lines), LineRanges(Head(lines)))
         \o ExtractLoop(Tail(lines))

\* the check after the loop
NonEmpty(out) ==
    IF out = <<>> THEN [err |-> "EmptyQueueLines", lines |-> <<>>]
    ELSE [err |-> "ok", lines |-> out]

\* err is "ok", "ValueError" (a range end that is not a time of day) or
\* "EmptyQueueLines" (no line of the block has a range)
_extract_queue_lines(lines) ==
    IF \E i \in 1..Len(lines) : RangesRaise(LineRanges(lines[i]))
    THEN [err |-> "ValueError", lines |-> <<>>]
    ELSE NonEmpty(ExtractLoop(lines))

(***************************************************************************)
(* parser.py: Fingerprint Builder and snapshots                            *)
(***************************************************************************)
\* sha256 is modelled as collision free: the digest stands for its source
_fingerprint(source) == <<"sha256", source>>

RawLines(queue_lines) == [i \in 1..Len(queue_lines) |-> queue_lines[i].raw_line]

NoSnapshot ==
    [applicable_date |-> BadDate, updated_at |-> 0, queue_lines |-> <<>>,
     fingerprint |-> _fingerprint(<<>>)]

ScheduleSnapshot(applicable_date, updated_at, queue_lines) ==
    [applicable_date |-> applicable_date,
     updated_at |-> updated_at,
     queue_lines |-> queue_lines,
     fingerprint |-> _fingerprint(<<isoformat(applicable_date), updated_at,
                                    RawLines(queue_lines)>>)]

Built(applicable_date, updated_at, ql) ==
    IF updated_at = Raised THEN [err |-> "ValueError", snap |-> NoSnapshot]
    ELSE IF ql.err # "ok" THEN [err |-> ql.err, snap |-> NoSnapshot]
    ELSE [err |-> "ok",
          snap |-> ScheduleSnapshot(applicable_date, updated_at, ql.lines)]

\* err is "ok", "ValueError" or "EmptyQueueLines"
_snapshot_from_block(applicable_date, block_lines) ==
    Built(applicable_date,
          _pick_update_datetime(Concat(block_lines), applicable_date),
          _extract_queue_lines(block_lines))

(***************************************************************************)
(* parser.py: Block Extractor.  A page is the sequence of its elements     *)
(* of class power-off__text, each the sequence of its non-blank lines.     *)
(***************************************************************************)
\* the header date of a block: SCHEDULE_HEADER_RE.search takes the first
\* match of each line; the first line whose match parses decides
RECURSIVE HeaderDate(_)
HeaderDate(lines) ==
    IF lines = <<>> THEN BadDate
    ELSE LET ms == SelectTokens(Head(lines), {"header"})
         IN  IF ms # <<>> /\ Head(ms).d # BadDate THEN Head(ms).d
             ELSE HeaderDate(Tail(lines))

\* out.append((header_date, lines)) unless the block is empty or dateless
Dated(lines, header_date) ==
    IF lines = <<>> \/ header_date = BadDate THEN <<>>
    ELSE <<[day |-> header_date, lines |-> lines]>>

RECURSIVE DatedBlocks(_)
DatedBlocks(page) ==
    IF page = <<>> THEN <<>>
    ELSE Dated(Head(page), HeaderDate(Head(page))) \o DatedBlocks(Tail(page))

\* the check after the loop: the "No '.power-off__text' schedule blocks
\* found" ParseError
BlocksFound(out) ==
    IF out = <<>> THEN [err |-> "NoBlocksFound", blocks |-> <<>>]
    ELSE [err |-> "ok", blocks |-> out]

\* raises exactly when no block of the page has a header date
_extract_schedule_blocks_from_html(page) == BlocksFound(DatedBlocks(page))

\* the browser step: the page, or FetchFailed when rendering raised or the
\* rendered HTML was empty
FetchFailed == <<<<<<[Word EXCEPT !.k = "fetch failed"]>>>>>>

\* the list comprehension over the blocks: the first block that raises
\* ends it
Prepended(snap, rest) ==
    IF rest.err # "ok" THEN rest
    ELSE [rest EXCEPT !.snapshots = <<snap>> \o @]

RECURSIVE Snapshots(_)
Snapshots(rs) ==
    IF rs = <<>> THEN [err |-> "ok", snapshots |-> <<>>]
    ELSE IF Head(rs).err # "ok" THEN [err |-> Head(rs).err, snapshots |-> <<>>]
    ELSE Prepended(Head(rs).snap, Snapshots(Tail(rs)))

Produced(got) ==
    IF got.err = "ok" /\ got.snapshots = <<>>
    THEN [err |-> "NoSnapshotsProduced", snapshots |-> <<>>]
    ELSE got

Parsed(ex) ==
    IF ex.err # "ok" THEN [err |-> ex.err, snapshots |-> <<>>]
    ELSE Produced(Snapshots([i \in 1..Len(ex.blocks) |->
             _snapshot_from_block(ex.blocks[i].day, ex.blocks[i].lines)]))

fetch_snapshot_rendered(page) ==
    IF page = FetchFailed THEN [err |-> "FetchError", snapshots |-> <<>>]
    ELSE Parsed(_extract_schedule_blocks_from_html(page))

(***************************************************************************)
(* parser.py: Queue Selector                                               *)
(***************************************************************************)
QueueNotFound == [ok |-> FALSE, ranges |-> <<>>]

\* merged.extend(line.ranges) for every selected line
Merged(selected) == Concat([i \in 1..Len(selected) |-> selected[i].ranges])

\* the ranges of the selected lines, or the ParseError
Selected(selected) ==
    IF selected = <<>> THEN QueueNotFound
    ELSE [ok |-> TRUE, ranges |-> Merged(selected)]

Unlabeled(queue_lines) ==
    \A i \in 1..Len(queue_lines) : queue_lines[i].queue = None

\* the lines selected when no label matched
Positional_zero_based(queue_lines, q) ==
    IF /\ Unlabeled(queue_lines) /\ IsDigit(q)
       /\ 0 <= ParseInt(q) /\ ParseInt(q) < Len(queue_lines)
    THEN <<queue_lines[ParseInt(q) + 1]>>
    ELSE <<>>

Positional(queue_lines, q) ==
    IF /\ Unlabeled(queue_lines) /\ IsDigit(q)
       /\ 0 <= ParseInt(q) - 1 /\ ParseInt(q) - 1 < Len(queue_lines)
    THEN <<queue_lines[ParseInt(q)]>>
    ELSE <<>>

Matched(queue_lines, target_queue) ==
    SelectSeq(queue_lines, LAMBDA l : l.queue = target_queue)

OrPositional(matched, queue_lines, q) ==
    IF matched # <<>> THEN matched ELSE Positional(queue_lines, q)

pick_queue_ranges(queue_lines, q) ==
    Selected(OrPositional(Matched(queue_lines, _normalize_queue(q)),
                          queue_lines, q))

(***************************************************************************)
(* state.py: the state file.  The file is absent, or holds the JSON        *)
(* object {"by_day_fingerprint": mapping}.                                 *)
(***************************************************************************)
EmptyMap == [k \in {} |-> 0]

NoFile == [exists |-> FALSE, by_day_fingerprint |-> EmptyMap]

load_state(file) == IF file.exists THEN file.by_day_fingerprint ELSE EmptyMap

save_state(state) == [exists |-> TRUE, by_day_fingerprint |-> state]

Pop_kept(state, key) == state

\* dict.pop(key, None)
Pop(state, key) == [k \in (DOMAIN state) \ {key} |-> state[k]]

Put_dropped(state, key, value) == state

\* dict[key] = value
Put(state, key, value) ==
    [k \in (DOMAIN state) \cup {key} |-> IF k = key THEN value ELSE state[k]]

GetEquals_identity(state, key, value) == FALSE

\* dict.get(key) == value
GetEquals(state, key, value) == key \in DOMAIN state /\ state[key] = value

(***************************************************************************)
(* main.py: run_once                                                       *)
(*                                                                         *)
(* The inputs of a run besides the state file, the date and the queue:     *)
(*   page    what the browser step renders, or FetchFailed                 *)
(*   failAt  the number of the replace_day_events call of this run that    *)
(*           raises a CalendarSyncError, NoFail when none does             *)
(*   smtp    "off" when NOTIFY_EMAIL_TO is empty, else "on"; a             *)
(*           NotificationError is caught and logged and changes nothing    *)
(* A run is a record of what it did:                                       *)
(*   fetched   how fetch_snapshot_rendered ended: "ok" or the error        *)
(*   snapshots the snapshots it returned                                   *)
(*   outcome   "saved" when save_state was called, else "failed"           *)
(*   error     the exception that ended the run, "none" when it returned   *)
(*   calls     the replace_day_events calls, in order; the last one has    *)
(*             ok = FALSE when it raised                                   *)
(*   notifs    the days send_schedule_update_email was called for          *)
(*   picks     the days pick_queue_ranges was called for                   *)
(*   selected  day -> position in the snapshot list of the snapshot kept   *)
(*             in latest_by_day                                            *)
(*   state     state.by_day_fingerprint when the run ended                 *)
(*   file      the state file when the run ended                           *)
(***************************************************************************)
NoFail == 0
MaxCalls == 2     \* a run makes at most two replace_day_events calls

_to_datetime_ranges(day, time_ranges) ==
    [i \in 1..Len(time_ranges) |->
        LET start_dt == combine(day, time_ranges[i][1])
            end_dt == combine(day, time_ranges[i][2])
        IN  <<start_dt,
              IF end_dt <= start_dt THEN end_dt + MinutesPerDay ELSE end_dt>>]

Call(day, ranges, ok) == [day |-> day, ranges |-> ranges, ok |-> ok]

Run(outcome, error, calls, notifs, picks, selected, state, file) ==
    [outcome |-> outcome, error |-> error, calls |-> calls, notifs |-> notifs,
     picks |-> picks, selected |-> selected, state |-> state, file |-> file,
     fetched |-> "none", snapshots |-> <<>>]

Abort_saving(r, error) ==
    [r EXCEPT !.outcome = "failed", !.error = error,
              !.file = save_state(r.state)]

\* an exception leaves run_once: nothing after the raising statement runs
Abort(r, error) == [r EXCEPT !.outcome = "failed", !.error = error]

Saved(r, state) ==
    [r EXCEPT !.outcome = "saved", !.state = state, !.file = save_state(state)]

\* _clear_day_events(sync, now, queue) and state.by_day_fingerprint.pop(
\* today_key, None) in the run r
Cleared(r, now, failAt) ==
    IF Len(r.calls) + 1 = failAt
    THEN Abort([r EXCEPT !.calls = Append(@, Call(now, <<>>, FALSE))],
               "CalendarSyncError")
    ELSE [r EXCEPT !.calls = Append(@, Call(now, <<>>, TRUE)),
                   !.state = Pop(@, isoformat(now))]

SavedUnlessFailed(r) == IF r.outcome = "failed" THEN r ELSE Saved(r, r.state)

\* _clear_day_events, state.by_day_fingerprint.pop(today_key, None),
\* save_state, return
ClearAndSave(file, now, failAt) ==
    SavedUnlessFailed(Cleared(Run("running", "none", <<>>, <<>>, <<>>,
                                  EmptyMap, load_state(file), file),
                              now, failAt))

DaySnapshots_all(snapshots, now) == [i \in 1..Len(snapshots) |-> i]

\* the positions of the snapshots with applicable_date in allowed_days
DaySnapshots(snapshots, now) ==
    SelectSeq([i \in 1..Len(snapshots) |-> i],
              LAMBDA i : snapshots[i].applicable_date \in {now, now + 1})

\* latest_by_day[snap.applicable_date] = snap
Kept(latest, day, idx) ==
    [d \in (DOMAIN latest) \cup {day} |-> IF d = day THEN idx ELSE latest[d]]

RECURSIVE LatestByDay_strict(_, _, _)
LatestByDay_strict(snapshots, idxs, latest) ==
    IF idxs = <<>> THEN latest
    ELSE LatestByDay_strict(snapshots, Tail(idxs),
             IF snapshots[Head(idxs)].applicable_date \notin DOMAIN latest
                \/ snapshots[Head(idxs)].updated_at
                     > snapshots[latest[snapshots[Head(idxs)].applicable_date]]
                           .updated_at
             THEN Kept(latest, snapshots[Head(idxs)].applicable_date, Head(idxs))
             ELSE latest)

\* the loop that fills latest_by_day, over the positions idxs
RECURSIVE LatestByDay(_, _, _)
LatestByDay(snapshots, idxs, latest) ==
    IF idxs = <<>> THEN latest
    ELSE LatestByDay(snapshots, Tail(idxs),
             IF snapshots[Head(idxs)].applicable_date \notin DOMAIN latest
                \/ snapshots[Head(idxs)].updated_at
                     >= snapshots[latest[snapshots[Head(idxs)].applicable_date]]
                            .updated_at
             THEN Kept(latest, snapshots[Head(idxs)].applicable_date, Head(idxs))
             ELSE latest)

\* sorted(keys)
RECURSIVE Sorted(_)
Sorted(keys) ==
    IF keys = {} THEN <<>>
    ELSE LET least == CHOOSE k \in keys : \A j \in keys : k <= j
         IN  <<least>> \o Sorted(keys \ {least})

\* lines 141-171 for one day: replace_day_events, the notification, and
\* state.by_day_fingerprint[day_key] = snapshot.fingerprint
Updated(r, day, fingerprint, dt_ranges, failAt, smtp) ==
    IF Len(r.calls) + 1 = failAt
    THEN Abort([r EXCEPT !.calls = Append(@, Call(day, dt_ranges, FALSE))],
               "CalendarSyncError")
    ELSE [r EXCEPT !.calls = Append(@, Call(day, dt_ranges, TRUE)),
                   !.notifs = IF smtp = "off" THEN @ ELSE Append(@, day),
                   !.state = Put(@, isoformat(day), fingerprint)]

\* lines 139-171 for one day, picked being what pick_queue_ranges gave
Synced(r, day, fingerprint, picked, failAt, smtp) ==
    IF ~picked.ok THEN Abort(r, "QueueNotFound")
    ELSE Updated(r, day, fingerprint, _to_datetime_ranges(day, picked.ranges),
                 failAt, smtp)

\* the body of the loop over the days for one day and its snapshot
DayStep(r, day, snapshot, q, failAt, smtp) ==
    IF GetEquals(r.state, isoformat(day), snapshot.fingerprint) THEN r
    ELSE Synced([r EXCEPT !.picks = Append(@, day)], day, snapshot.fingerprint,
                pick_queue_ranges(snapshot.queue_lines, q), failAt, smtp)

\* the loop over the days of latest_by_day; r is the run so far
RECURSIVE DayLoop(_, _, _, _, _, _)
DayLoop(snapshots, days, q, failAt, smtp, r) ==
    IF days = <<>> \/ r.outcome = "failed" THEN r
    ELSE DayLoop(snapshots, Tail(days), q, failAt, smtp,
                 DayStep(r, Head(days), snapshots[r.selected[Head(days)]], q,
                         failAt, smtp))

\* state.by_day_fingerprint restricted to the keys of today and tomorrow
Prune(state, now) ==
    [k \in (DOMAIN state) \cap {isoformat(now), isoformat(now + 1)} |-> state[k]]

PrunedAndSaved(r, now) ==
    IF r.outcome = "failed" THEN r ELSE Saved(r, Prune(r.state, now))

\* lines 126-129: today is cleared when it has no snapshot
ClearedIfAbsent(r, now, failAt) ==
    IF now \in DOMAIN r.selected THEN r ELSE Cleared(r, now, failAt)

\* lines 119-179, latest being latest_by_day
Diffed(file, now, q, snapshots, latest, failAt, smtp) ==
    PrunedAndSaved(
        DayLoop(snapshots, Sorted(DOMAIN latest), q, failAt, smtp,
                ClearedIfAbsent(Run("running", "none", <<>>, <<>>, <<>>, latest,
                                    load_state(file), file), now, failAt)),
        now)

\* lines 111-179, day_snapshots being the positions within the horizon
Horizon(file, now, q, snapshots, day_snapshots, failAt, smtp) ==
    IF day_snapshots = <<>> THEN ClearAndSave(file, now, failAt)
    ELSE Diffed(file, now, q, snapshots,
                LatestByDay(snapshots, day_snapshots, EmptyMap), failAt, smtp)

\* run_once from line 109 on: the horizon, the diff and the save
DiffAndSave(file, now, q, snapshots, failAt, smtp) ==
    Horizon(file, now, q, snapshots, DaySnapshots(snapshots, now), failAt, smtp)

\* run_once from line 106 on: fetch_snapshot_rendered returned snapshots
RunWithSnapshots(file, now, q, snapshots, failAt, smtp) ==
    [DiffAndSave(file, now, q, snapshots, failAt, smtp)
        EXCEPT !.fetched = "ok", !.snapshots = snapshots]

\* lines 94-104: the handler of the ParseError of fetch_snapshot_rendered
\* clears today when the message is the one of
\* _extract_schedule_blocks_from_html, and re-raises otherwise
Fetched(fetched, file, now, q, failAt, smtp) ==
    IF fetched.err = "NoBlocksFound"
    THEN [ClearAndSave(file, now, failAt) EXCEPT !.fetched = fetched.err]
    ELSE IF fetched.err # "ok"
    THEN [Abort(Run("running", "none", <<>>, <<>>, <<>>, EmptyMap,
                    load_state(file), file), fetched.err)
             EXCEPT !.fetched = fetched.err]
    ELSE RunWithSnapshots(file, now, q, fetched.snapshots, failAt, smtp)

run_once(file, now, q, page, failAt, smtp) ==
    Fetched(fetch_snapshot_rendered(page), file, now, q, failAt, smtp)

(***************************************************************************)
(* calendar_sync.py: the events of the queue on the calendar.  The         *)
(* calendar is the mapping from the days that hold events of the queue     *)
(* (events whose text holds the title of the queue) to the ranges of       *)
(* those events, in the order they were added.                             *)
(***************************************************************************)
\* the events of the queue on a day
Events(cal, day) == IF day \in DOMAIN cal THEN cal[day] ELSE <<>>

\* the calendar with the events of a day deleted and an event added for
\* each of the ranges
Written(cal, day, ranges) ==
    [d \in ((DOMAIN cal) \ {day}) \cup (IF ranges = <<>> THEN {} ELSE {day})
        |-> IF d = day THEN ranges ELSE cal[d]]

\* the calendars a replace_day_events call that raises can leave: nothing
\* done (the calendar lookup or the search raised), or the events of the
\* day deleted and only the first k of the ranges added.  A failure within
\* the deletions is taken at its two ends, no event deleted or all.
Interrupted(cal, day, ranges) ==
    {cal} \cup {Written(cal, day, SubSeq(ranges, 1, k)) :
                   k \in 0..(IF ranges = <<>> THEN 0 ELSE Len(ranges) - 1)}

\* the calendars the replace_day_events calls of a run can leave; only the
\* last call of a run can be one that raised
RECURSIVE Replaced(_, _)
Replaced(cal, calls) ==
    IF calls = <<>> THEN {cal}
    ELSE IF Head(calls).ok
    THEN Replaced(Written(cal, Head(calls).day, Head(calls).ranges), Tail(calls))
    ELSE Interrupted(cal, Head(calls).day, Head(calls).ranges)

(***************************************************************************)
(* The inputs the model enumerates.                                        *)
(***************************************************************************)
Q1 == <<"1">>
Q2 == <<"2">>

\* the schedule blocks a page is made of, for the date now
TodayA(now) ==
    << <<Header(now)>>,
       <<Word, DateTime(now, <<7, 15>>)>>,
       <<Label(Q1), Range(<<8, 0>>, <<12, 0>>)>> >>

\* same day and same "updated" stamp as TodayA, other ranges
TodayB(now) ==
    << <<Header(now)>>,
       <<Word, DateTime(now, <<7, 15>>)>>,
       <<Label(<<"1", ".">>), Range(<<20, 0>>, <<24, 0>>)>> >>

\* an older block of the day, for queue 2 only
TodayOld(now) ==
    << <<Header(now)>>,
       <<Word, Time(<<6, 0>>)>>,
       <<Label(Q2), Range(<<10, 0>>, <<14, 0>>)>> >>

Tomorrow(now) ==
    << <<Header(now + 1)>>,
       <<Label(Q1), Range(<<9, 0>>, <<11, 0>>)>>,
       <<Label(Q2), Range(<<16, 0>>, <<18, 0>>), Range(<<22, 0>>, <<2, 0>>)>> >>

\* a block of the day after tomorrow
Beyond(now) ==
    << <<Header(now + 2)>>,
       <<Label(Q1), Range(<<8, 0>>, <<12, 0>>)>> >>

\* a block whose header date does not parse
Dateless(now) ==
    << <<Header(BadDate)>>,
       <<Label(Q1), Range(<<8, 0>>, <<12, 0>>)>> >>

\* a block of the day without any time range
Rangeless(now) ==
    << <<Header(now)>>, <<Label(Q1), Word>> >>

Blocks(now) ==
    {TodayA(now), TodayB(now), TodayOld(now), Tomorrow(now), Beyond(now),
     Dateless(now), Rangeless(now)}

Pages(now) == SeqsUpTo(Blocks(now), MaxBlocks) \cup {FetchFailed}

Queues == {Q1, <<"2", ".">>}

SmtpModes == {"off", "on"}

\* last: the inputs of the run, the run, and the outcome of the run before
\* it when this run is a second run on the unchanged page (else "none")
Last(page, failAt, smtp, run, prev) ==
    [page |-> page, failAt |-> failAt, smtp |-> smtp, run |-> run,
     prev |-> prev]

NoRun ==
    Last(<<>>, NoFail, "off", Run("none", "none", <<>>, <<>>, <<>>, EmptyMap, EmptyMap, NoFile),
         "none")

\* the lines pick_queue_ranges is applied to
SelRawLines ==
    { <<Range(<<8, 0>>, <<12, 0>>)>>,
      <<Range(<<13, 0>>, <<14, 0>>)>>,
      <<Label(Q1), Range(<<9, 0>>, <<10, 0>>)>>,
      <<Label(<<"2", ".">>), Range(<<10, 0>>, <<11, 0>>),
        Range(<<20, 0>>, <<22, 0>>)>>,
      <<Label(Q2), Range(<<15, 0>>, <<16, 0>>)>>,
      <<Label(<<".">>), Range(<<1, 0>>, <<2, 0>>)>>,
      <<Word>> }

SelQueues ==
    { Q1, Q2, <<" ", "2">>, <<"2", ".">>, <<"5">>, <<"0">>, <<"0", "3">>,
      <<>>, <<"x">> }

\* the tokens _pick_update_datetime is applied to
ResTokens ==
    { Word, Time(<<7, 15>>), Time(<<25, 0>>), Time(<<24, 0>>),
      Range(<<8, 0>>, <<12, 0>>), Range(<<12, 75>>, <<13, 0>>),
      DateTime(2, <<9, 30>>), DateTime(BadDate, <<9, 30>>),
      DateTime(2, <<24, 30>>), TimeDate(<<6, 45>>, 3) }

ResDates == {1, 2}

(***************************************************************************)
(* The orchestrator, run by an external scheduler.  Here the calendar is   *)
(* seen through the replace_day_events calls of each run (last.run.calls); *)
(* the events the calls leave on the calendar are followed in CalSpec.     *)
(***************************************************************************)
Init ==
    /\ persisted = NoFile
    /\ calendar = EmptyMap
    /\ today = FirstDay
    /\ queue \in Queues
    /\ last = NoRun
    /\ selLines = <<>> /\ selQueue = <<>> /\ selResult = <<>>
    /\ resText = <<>> /\ resFallback = FirstDay /\ resResult = <<>>

\* the scheduler invokes run_once, which runs to completion
RunOnce ==
    /\ last = NoRun
    /\ \E page \in Pages(today), failAt \in NoFail..MaxCalls, smtp \in SmtpModes :
           last' = Last(page, failAt, smtp,
                        run_once(persisted, today, queue, page, failAt, smtp),
                        "none")
    /\ persisted' = last'.run.file
    /\ UNCHANGED <<calendar, today, queue, selVars, resVars>>

\* the scheduler invokes run_once a second time on the same day, with the
\* same configuration, while the source page has not changed
RunAgain ==
    /\ last # NoRun
    /\ last.prev = "none"
    /\ \E failAt \in NoFail..MaxCalls :
           last' = Last(last.page, failAt, last.smtp,
                        run_once(persisted, today, queue, last.page, failAt,
                                 last.smtp),
                        last.run.outcome)
    /\ persisted' = last'.run.file
    /\ UNCHANGED <<calendar, today, queue, selVars, resVars>>

\* the process exits: only the state file outlives the run
Exit ==
    /\ last # NoRun
    /\ last' = NoRun
    /\ UNCHANGED <<persisted, calendar, today, queue, selVars, resVars>>

\* midnight passes in the configured zone
NextDay ==
    /\ last = NoRun
    /\ today < LastDay
    /\ today' = today + 1
    /\ UNCHANGED <<persisted, calendar, queue, last, selVars, resVars>>

Next == RunOnce \/ RunAgain \/ Exit \/ NextDay

Spec == Init /\ [][Next]_vars

(***************************************************************************)
(* The orchestrator together with the calendar it writes to, for one       *)
(* target queue and one date: the runs of one day.                         *)
(***************************************************************************)
CalInit == Init

\* a block of tomorrow that names queue 1 only
TomorrowOne(now) ==
    << <<Header(now + 1)>>,
       <<Label(Q1), Range(<<17, 0>>, <<19, 0>>)>> >>

\* the pages of Spec, and the pages with tomorrow's block for one queue
CalPages(now) ==
    Pages(now) \cup {<<TomorrowOne(now)>>, <<TodayOld(now), TomorrowOne(now)>>}

\* the scheduler invokes run_once; its replace_day_events calls reach the
\* calendar whether or not the run goes on to save the state
CalRun ==
    /\ last = NoRun
    /\ \E page \in CalPages(today), failAt \in NoFail..MaxCalls,
          smtp \in SmtpModes :
           last' = Last(page, failAt, smtp,
                        run_once(persisted, today, queue, page, failAt, smtp),
                        "none")
    /\ persisted' = last'.run.file
    /\ calendar' \in Replaced(calendar, last'.run.calls)
    /\ UNCHANGED <<today, queue, selVars, resVars>>

CalNext == CalRun \/ Exit

CalSpec == CalInit /\ [][CalNext]_vars

(***************************************************************************)
(* The Queue Selector applied to the queue lines of a block.               *)
(***************************************************************************)
SelInit ==
    /\ persisted = NoFile /\ calendar = EmptyMap
    /\ today = FirstDay /\ queue = Q1
    /\ last = NoRun
    /\ \E raw \in SeqsUpTo(SelRawLines, MaxLines) :
           selLines = ExtractLoop(raw)
    /\ selQueue \in SelQueues
    /\ selResult = <<>>
    /\ resText = <<>> /\ resFallback = FirstDay /\ resResult = <<>>

SelPick ==
    /\ selResult = <<>>
    /\ selResult' = <<pick_queue_ranges(selLines, selQueue)>>
    /\ UNCHANGED <<runVars, selLines, selQueue, resVars>>

SelNext == SelPick

SelSpec == SelInit /\ [][SelNext]_vars

(***************************************************************************)
(* The Timestamp Resolver applied to a block text.                         *)
(***************************************************************************)
ResInit ==
    /\ persisted = NoFile /\ calendar = EmptyMap
    /\ today = FirstDay /\ queue = Q1
    /\ last = NoRun
    /\ selLines = <<>> /\ selQueue = <<>> /\ selResult = <<>>
    /\ resText \in SeqsUpTo(ResTokens, MaxTokens)
    /\ resFallback \in ResDates
    /\ resResult = <<>>

ResPick ==
    /\ resResult = <<>>
    /\ resResult' = <<_pick_update_datetime(resText, resFallback)>>
    /\ UNCHANGED <<runVars, selVars, resText, resFallback>>

ResNext == ResPick

ResSpec == ResInit /\ [][ResNext]_vars

(***************************************************************************)
(* Properties of run_once.                                                 *)
(***************************************************************************)
\* the mapping held by a state file
Stored(file) == file.by_day_fingerprint

\* the snapshots the run in l received from fetch_snapshot_rendered
Snaps(l) == l.run.snapshots

\* the fingerprint of the snapshot the run in l kept for day d
SelectedFp(l, d) == Snaps(l)[l.run.selected[d]].fingerprint

InSeq(x, s) == \E i \in 1..Len(s) : s[i] = x

CalledFor(r, d) == \E i \in 1..Len(r.calls) : r.calls[i].day = d

HorizonKeys == {isoformat(today), isoformat(today + 1)}

\* C1: after every run that saves state, the state file holds no key other
\* than the ISO dates of today and tomorrow.
C1_OnlyHorizonKeys ==
    (last # NoRun /\ last.run.outcome = "saved")
        => DOMAIN Stored(persisted) \subseteq HorizonKeys

\* C2: a day of the horizon whose selected snapshot has the fingerprint that
\* the state file holds for the day gets no replace_day_events call, no
\* notification and no pick_queue_ranges call, and its entry stays as it is.
C2_NoOpDay ==
    [][\A d \in {today, today + 1} :
          ( /\ last' # NoRun
            /\ d \in DOMAIN last'.run.selected
            /\ isoformat(d) \in DOMAIN Stored(persisted)
            /\ Stored(persisted)[isoformat(d)] = SelectedFp(last', d) )
          => ( /\ ~CalledFor(last'.run, d)
               /\ ~InSeq(d, last'.run.notifs)
               /\ ~InSeq(d, last'.run.picks)
               /\ isoformat(d) \in DOMAIN last'.run.state
               /\ last'.run.state[isoformat(d)] = Stored(persisted)[isoformat(d)]
               /\ isoformat(d) \in DOMAIN Stored(persisted')
               /\ Stored(persisted')[isoformat(d)]
                      = Stored(persisted)[isoformat(d)] )]_vars

\* a completed run in which a selected day was left alone
C2_Witness ==
    /\ last # NoRun
    /\ last.run.outcome = "saved"
    /\ \E d \in DOMAIN last.run.selected :
           /\ ~InSeq(d, last.run.picks)
           /\ Stored(persisted)[isoformat(d)] = SelectedFp(last, d)

\* C3: a second run on the same snapshots, queue and date, started from the
\* state a completed run saved, replaces no day's events with a non-empty
\* list, sends no notification, and saves the state it started from.
C3_Idempotent ==
    [][(last # NoRun /\ last.run.outcome = "saved" /\ last' # NoRun)
          => ( /\ \A i \in 1..Len(last'.run.calls) :
                     last'.run.calls[i].ranges = <<>>
               /\ last'.run.notifs = <<>>
               /\ last'.run.outcome = "saved" => persisted' = persisted )]_vars

\* a completed second run, after a completed run that had days to diff
C3_Witness ==
    /\ last.prev = "saved"
    /\ last.run.outcome = "saved"
    /\ last.smtp = "on"
    /\ Cardinality(DOMAIN last.run.selected) = 2

\* C4: a run that fails leaves the state file as it was.
C4_FailedRunKeepsFile ==
    [][(last' # NoRun /\ last'.run.outcome = "failed")
          => persisted' = persisted]_vars

\* a run that failed on its second calendar call, after the first one had
\* changed the in-memory state
C4_Witness ==
    /\ last.run.outcome = "failed"
    /\ Len(last.run.calls) = 2
    /\ last.run.state # Stored(persisted)

\* C5: a page that has schedule blocks, none of them with a resolvable
\* header date, makes the run fail without any calendar call.
C5_DatelessPageFails ==
    ( /\ last # NoRun
      /\ last.page # FetchFailed
      /\ last.page # <<>>
      /\ \A i \in 1..Len(last.page) : HeaderDate(last.page[i]) = BadDate )
    => (last.run.outcome = "failed" /\ last.run.calls = <<>>)

\* C7: a snapshot dated outside today and tomorrow gets no calendar call and
\* no notification, no key is written for its date, and the run does and
\* saves what it would without that snapshot in the list.
C7_OutOfHorizonIgnored ==
    [][LET snaps == Snaps(last')
       IN  (last' # NoRun /\ last'.run.fetched = "ok")
           => \A i \in 1..Len(snaps) :
                 LET date == snaps[i].applicable_date
                     without == RunWithSnapshots(persisted, today, queue,
                                    RemoveAt(snaps, i), last'.failAt,
                                    last'.smtp)
                 IN  date \notin {today, today + 1}
                     => /\ ~CalledFor(last'.run, date)
                        /\ ~InSeq(date, last'.run.notifs)
                        /\ isoformat(date) \in DOMAIN Stored(persisted')
                             => /\ isoformat(date) \in DOMAIN Stored(persisted)
                                /\ Stored(persisted')[isoformat(date)]
                                       = Stored(persisted)[isoformat(date)]
                        /\ [without EXCEPT !.selected = EmptyMap,
                                            !.snapshots = <<>>]
                               = [last'.run EXCEPT !.selected = EmptyMap,
                                                   !.snapshots = <<>>]
                        /\ without.file = persisted']_vars

\* a completed run that updated a day although the list held a snapshot of
\* the day after tomorrow
C7_Witness ==
    /\ last # NoRun
    /\ last.run.outcome = "saved"
    /\ last.run.fetched = "ok"
    /\ \E i \in 1..Len(Snaps(last)) :
           Snaps(last)[i].applicable_date = today + 2
    /\ last.run.notifs # <<>>

\* C9: the snapshot kept for a day is one of that day's snapshots with the
\* greatest updated_at, and the last of those in input order; every day of
\* the horizon that has a snapshot has exactly one kept.
C9_LatestLastWins ==
    (last # NoRun /\ last.run.fetched = "ok"
                  /\ last.run.selected # EmptyMap)
    => LET snaps == Snaps(last)
           sel == last.run.selected
       IN  /\ DOMAIN sel = {d \in {today, today + 1} :
                               \E j \in 1..Len(snaps) :
                                   snaps[j].applicable_date = d}
           /\ \A d \in DOMAIN sel :
                 /\ sel[d] \in 1..Len(snaps)
                 /\ snaps[sel[d]].applicable_date = d
                 /\ \A j \in 1..Len(snaps) :
                       snaps[j].applicable_date = d
                       => /\ snaps[j].updated_at <= snaps[sel[d]].updated_at
                          /\ snaps[j].updated_at = snaps[sel[d]].updated_at
                                => j <= sel[d]

\* a day with two different snapshots of the same updated_at: the later is kept
C9_Witness ==
    /\ last # NoRun
    /\ last.run.fetched = "ok"
    /\ \E d \in DOMAIN last.run.selected :
           \E j \in 1..Len(Snaps(last)) :
               /\ j < last.run.selected[d]
               /\ Snaps(last)[j].applicable_date = d
               /\ Snaps(last)[j].updated_at
                      = Snaps(last)[last.run.selected[d]].updated_at
               /\ Snaps(last)[j].fingerprint # SelectedFp(last, d)

\* today has a snapshot in the list the run in l received
TodayHasSnapshot(l) ==
    /\ l.run.fetched = "ok"
    /\ \E j \in 1..Len(Snaps(l)) : Snaps(l)[j].applicable_date = today

TomorrowHasSnapshot(l) ==
    /\ l.run.fetched = "ok"
    /\ \E j \in 1..Len(Snaps(l)) : Snaps(l)[j].applicable_date = today + 1

\* C10: a completed run replaces today's events with the empty list exactly
\* when today has no snapshot, never does so for tomorrow, and then saves a
\* state without today's key; tomorrow's snapshot is still diffed and its
\* fingerprint saved.
C10_ClearToday ==
    (last # NoRun /\ last.run.outcome = "saved")
    => /\ (\E i \in 1..Len(last.run.calls) :
              last.run.calls[i] = Call(today, <<>>, TRUE))
          <=> ~TodayHasSnapshot(last)
       /\ \A i \in 1..Len(last.run.calls) :
             last.run.calls[i].ranges = <<>> => last.run.calls[i].day = today
       /\ ~TodayHasSnapshot(last)
             => isoformat(today) \notin DOMAIN Stored(persisted)
       /\ (~TodayHasSnapshot(last) /\ TomorrowHasSnapshot(last))
             => /\ isoformat(today + 1) \in DOMAIN Stored(persisted)
                /\ Stored(persisted)[isoformat(today + 1)]
                       = SelectedFp(last, today + 1)

\* a completed run that cleared today and updated tomorrow
C10_Witness ==
    /\ last # NoRun
    /\ last.run.outcome = "saved"
    /\ ~TodayHasSnapshot(last)
    /\ Len(last.run.calls) = 2
    /\ last.run.calls[1] = Call(today, <<>>, TRUE)
    /\ last.run.calls[2].day = today + 1
    /\ last.run.calls[2].ranges # <<>>

(***************************************************************************)
(* Properties of the Timestamp Resolver.                                   *)
(***************************************************************************)
\* C6: _pick_update_datetime returns an instant for every block text and
\* fallback date; it never raises.
C6_ResolverTotal == resResult # <<>> => resResult[1] # Raised

(***************************************************************************)
(* Properties of the Queue Selector.                                       *)
(***************************************************************************)
\* the ranges of the lines labelled t, in line order
RECURSIVE RefRanges(_, _)
RefRanges(lines, t) ==
    IF lines = <<>> THEN <<>>
    ELSE (IF Head(lines).queue = t THEN Head(lines).ranges ELSE <<>>)
         \o RefRanges(Tail(lines), t)

RefPick(lines, q) ==
    LET t == _normalize_queue(q)
        numeric == q # <<>> /\ \A i \in 1..Len(q) : q[i] \in Digits
    IN  IF \E i \in 1..Len(lines) : lines[i].queue = t
        THEN [ok |-> TRUE, ranges |-> RefRanges(lines, t)]
        ELSE IF /\ \A i \in 1..Len(lines) : lines[i].queue = None
                /\ numeric
                /\ ParseInt(q) \in 1..Len(lines)
        THEN [ok |-> TRUE, ranges |-> lines[ParseInt(q)].ranges]
        ELSE [ok |-> FALSE, ranges |-> <<>>]

Swap(s, i, j) ==
    [k \in 1..Len(s) |-> IF k = i THEN s[j] ELSE IF k = j THEN s[i] ELSE s[k]]

C12_NormalizedIdentifier ==
    selResult # <<>>
    => \A q2 \in SelQueues :
          _normalize_queue(q2) = _normalize_queue(selQueue)
          => pick_queue_ranges(selLines, q2) = selResult[1]

(***************************************************************************)
(* Properties of run_once and the calendar.                                *)
(***************************************************************************)
\* the queue lines of every snapshot with the fingerprint f: the digest
\* covers the raw text of exactly the lines that became queue lines
LinesOf(f) == ExtractLoop(f[2][3])

\* the events that show, on day d, the ranges of queue q in a snapshot with
\* the fingerprint f
Shown(f, d, q) ==
    _to_datetime_ranges(d, pick_queue_ranges(LinesOf(f), q).ranges)

\* C11: over the runs of one day for one target queue, completed or aborted
\* part-way, whenever the state file holds the fingerprint f for a day, the
\* events of the queue on the calendar for that day are the queue's ranges
\* of a snapshot with the fingerprint f.
C11_CalendarMatchesState ==
    \A d \in {today, today + 1} :
        isoformat(d) \in DOMAIN Stored(persisted)
        => /\ pick_queue_ranges(LinesOf(Stored(persisted)[isoformat(d)]),
                                queue).ok
           /\ Events(calendar, d)
                  = Shown(Stored(persisted)[isoformat(d)], d, queue)

====
